---------------------------- MODULE Spec2Model ----------------------------
(***************************************************************************)
(* Background removal of drinkup-image (src/src/image_processor/service.rs)*)
(* BackgroundRemover::remove_background and the functions it calls:        *)
(* detect_background_color, create_mask, flood_fill_background,            *)
(* flood_fill_iterative, apply_mask, calculate_edge_alpha, color_distance. *)
(*                                                                         *)
(* Grids are Vec<Vec<_>> in the code (mask[y][x]); here they are sequences *)
(* of rows, 1-based, so the code's grid[y][x] is grid[y + 1][x + 1].       *)
(***************************************************************************)
EXTENDS Integers, Sequences, FiniteSets, TLC

(***************************************************************************)
(* f32 arithmetic.  A finite non-negative f32 is [nan |-> FALSE, m, e],    *)
(* standing for m * 2^e with m = 0 or 2^23 <= m < 2^24 (24 significant     *)
(* bits, round to nearest, ties to even).  The code only ever produces     *)
(* non-negative values and, from 0.0 / 0.0, NaN.                           *)
(***************************************************************************)
Pow2(k) == 2 ^ k

MantLo == Pow2(23)

MantHi == Pow2(24)

F32Zero == [nan |-> FALSE, m |-> 0, e |-> 0]

F32NaN == [nan |-> TRUE, m |-> 0, e |-> 0]

F32One == [nan |-> FALSE, m |-> MantLo, e |-> -23]

\* n / 2^s rounded to the nearest integer, ties to even.
RoundShift(n, s) ==
    IF s = 0 THEN n
    ELSE LET q == n \div Pow2(s)
             r == n % Pow2(s)
             half == Pow2(s - 1)
         IN  IF r > half \/ (r = half /\ q % 2 = 1) THEN q + 1 ELSE q

RECURSIVE BitLen(_)
BitLen(n) == IF n = 0 THEN 0 ELSE 1 + BitLen(n \div 2)

\* The f32 nearest to n * 2^e, for an integer 0 <= n < 2^31.
F32Normalise(n, e) ==
    IF n = 0 THEN F32Zero
    ELSE LET len == BitLen(n)
         IN  IF len <= 24
             THEN [nan |-> FALSE, m |-> n * Pow2(24 - len), e |-> e - (24 - len)]
             ELSE LET s == len - 24
                      q == RoundShift(n, s)
                  IN  IF q = MantHi
                      THEN [nan |-> FALSE, m |-> MantLo, e |-> e + s + 1]
                      ELSE [nan |-> FALSE, m |-> q, e |-> e + s]

RECURSIVE DivShift(_, _, _)
\* The least k with p * 2^k \div q >= 2^23.
DivShift(p, q, k) ==
    IF (p * Pow2(k)) \div q >= MantLo THEN k ELSE DivShift(p, q, k + 1)

\* (p as f32) / (q as f32) for integers 0 <= p, 0 <= q, p / q < 2^24.
\* 0.0 / 0.0 is NaN; the code never divides a positive sum by zero.
F32DivInt(p, q) ==
    IF q = 0 THEN F32NaN
    ELSE IF p = 0 THEN F32Zero
    ELSE LET k == DivShift(p, q, 0)
             n == p * Pow2(k)
             d == n \div q
             r == n % q
             up == 2 * r > q \/ (2 * r = q /\ d % 2 = 1)
             mm == IF up THEN d + 1 ELSE d
         IN  IF mm = MantHi
             THEN [nan |-> FALSE, m |-> MantLo, e |-> 1 - k]
             ELSE [nan |-> FALSE, m |-> mm, e |-> -k]

\* 1.0 - x for an f32 0 <= x <= 1.
F32OneMinus(x) ==
    IF x.nan THEN F32NaN
    ELSE IF x.m = 0 THEN F32One
    ELSE F32Normalise(Pow2(-x.e) - x.m, x.e)

\* f32::max(x, 0.0): NaN gives the other operand; the values here are >= 0.
F32Max0(x) == IF x.nan THEN F32Zero ELSE x

\* (a as f32) * x for a u8 a.  The exact product a * x.m can need 32 bits,
\* so it is kept as hi * 2^8 + lo.
F32MulU8(a, x) ==
    IF x.nan THEN F32NaN
    ELSE IF a = 0 \/ x.m = 0 THEN F32Zero
    ELSE LET mh == x.m \div 256
             ml == x.m % 256
             hi == a * mh + ((a * ml) \div 256)
             lo == (a * ml) % 256
             len == BitLen(hi)
         IN  IF len <= 16
             THEN F32Normalise(hi * 256 + lo, x.e)
             ELSE LET s == len - 16
                      q == hi * Pow2(8 - s) + (lo \div Pow2(s))
                      r == lo % Pow2(s)
                      half == Pow2(s - 1)
                      up == r > half \/ (r = half /\ q % 2 = 1)
                      mm == IF up THEN q + 1 ELSE q
                  IN  IF mm = MantHi
                      THEN [nan |-> FALSE, m |-> MantLo, e |-> x.e + s + 1]
                      ELSE [nan |-> FALSE, m |-> mm, e |-> x.e + s]

\* `x as u8`, rounding to nearest instead of truncating.
F32RoundToU8(x) ==
    IF x.nan \/ x.m = 0 THEN 0
    ELSE IF x.e >= 0 THEN 255
    ELSE IF -x.e >= 30 THEN 0
    ELSE LET t == x.m \div Pow2(-x.e)
             r == x.m % Pow2(-x.e)
             v == IF 2 * r >= Pow2(-x.e) THEN t + 1 ELSE t
         IN  IF v > 255 THEN 255 ELSE v

\* `x as u8`: truncation toward zero, saturating, NaN to 0.
F32ToU8(x) ==
    IF x.nan \/ x.m = 0 THEN 0
    ELSE IF x.e >= 0 THEN 255
    ELSE IF -x.e >= 30 THEN 0
    ELSE LET t == x.m \div Pow2(-x.e)
         IN  IF t > 255 THEN 255 ELSE t


(***************************************************************************)
(* Program constants.                                                      *)
(***************************************************************************)
\* BackgroundRemover::new: color_tolerance: 30.0
color_tolerance == 30

\* BackgroundRemover::new: edge_blur: 2
edge_blur == 2

\* detect_background_color: 5.min(width / 4).min(height / 4)
MaxSampleSide == 5

CornerDivisor == 4

(***************************************************************************)
(* Bounds of the model.                                                    *)
(***************************************************************************)
\* Largest image width and height of the sparse images and masks.
MaxW == 5

MaxH == 5

\* Images and masks of at most this many cells take every pattern.
MaxCells == 10

\* Larger images and masks differ from a uniform one in at most this many cells.
MaxFg == 1

\* Masks given to flood_fill_background alone: every pattern of at most
\* this many cells.
MaxFloodCells == 10

(***************************************************************************)
(* Pixels, images, grids.                                                  *)
(***************************************************************************)
Rgba(r, g, b, a) == [r |-> r, g |-> g, b |-> b, a |-> a]

Min2(a, b) == IF a < b THEN a ELSE b

\* RgbaImage: width, height and the pixels, px[y + 1][x + 1].
get_pixel(img, x, y) == img.px[y + 1][x + 1]

\* Whether grid[y][x] is inside a Vec<Vec<_>> (a slice index that panics if not).
InGrid(grid, x, y) ==
    /\ x >= 0 /\ y >= 0
    /\ y + 1 <= Len(grid)
    /\ x + 1 <= Len(grid[y + 1])

At(grid, x, y) == grid[y + 1][x + 1]

\* vec![vec![v; width]; height]
NewGrid(w, h, v) == [y \in 1..h |-> [x \in 1..w |-> v]]

\* A usize as large as usize::MAX for every comparison and index of the
\* model (TLC's integers are 32 bits wide).
UsizeMax == Pow2(30)

\* a - b on usize with overflow checks off: wraps around.
UsizeWrappingSub(a, b) == IF a >= b THEN a - b ELSE UsizeMax - (b - a) + 1

(***************************************************************************)
(* color_distance and the tolerance test of create_mask.                   *)
(***************************************************************************)
RECURSIVE ISqrtBetween(_, _, _)
\* The s with s * s <= n < (s + 1) * (s + 1), given lo * lo <= n < hi * hi.
ISqrtBetween(n, lo, hi) ==
    IF hi - lo <= 1 THEN lo
    ELSE LET mid == (lo + hi) \div 2
         IN  IF mid * mid <= n THEN ISqrtBetween(n, mid, hi)
                               ELSE ISqrtBetween(n, lo, mid)

\* sqrt(dr*dr + dg*dg + db*db).  The sum is an integer below 2^18, exact in
\* f32; its correctly rounded f32 root compares with an integer bound as the
\* real root does, so the root is kept as its integer part and whether it is
\* exact.
color_distance(color1, color2) ==
    LET dr == color1.r - color2.r
        dg == color1.g - color2.g
        db == color1.b - color2.b
        n == dr * dr + dg * dg + db * db
        s == ISqrtBetween(n, 0, Pow2(9))
    IN  [floor |-> s, exact |-> s * s = n]

\* color_distance(..) <, in place of <=, the tolerance.
BelowTolerance(d) == d.floor < color_tolerance

\* color_distance(..) <= self.color_tolerance
WithinTolerance(d) ==
    \/ d.floor < color_tolerance
    \/ d.floor = color_tolerance /\ d.exact

(***************************************************************************)
(* detect_background_color.                                                *)
(***************************************************************************)
SampleSize(w, h) == Min2(Min2(MaxSampleSide, w \div CornerDivisor), h \div CornerDivisor)

\* The (x, y) of the four corner loops, in the order they are pushed.
CornerRanges(w, h) ==
    LET s == SampleSize(w, h)
    IN  << <<0, s, 0, s>>,
           <<w - s, w, 0, s>>,
           <<0, s, h - s, h>>,
           <<w - s, w, h - s, h>> >>

RECURSIVE SumCells(_, _, _)
SumCells(img, cells, ch) ==
    IF cells = {} THEN 0
    ELSE LET c == CHOOSE c \in cells : TRUE
         IN  get_pixel(img, c[1], c[2])[ch] + SumCells(img, cells \ {c}, ch)

CornerCells(rg) == (rg[1]..(rg[2] - 1)) \X (rg[3]..(rg[4] - 1))

\* corner_colors.iter().map(|c| c[ch] as f32).sum::<f32>(): the channels
\* are integers and every partial sum is below 2^24, so the f32 sum is exact.
CornerSum(img, ch) ==
    LET rs == CornerRanges(img.width, img.height)
    IN  SumCells(img, CornerCells(rs[1]), ch) + SumCells(img, CornerCells(rs[2]), ch)
        + SumCells(img, CornerCells(rs[3]), ch) + SumCells(img, CornerCells(rs[4]), ch)

\* corner_colors.len()
CornerCount(w, h) ==
    LET rs == CornerRanges(w, h)
    IN  Cardinality(CornerCells(rs[1])) + Cardinality(CornerCells(rs[2]))
        + Cardinality(CornerCells(rs[3])) + Cardinality(CornerCells(rs[4]))

detect_background_color(img) ==
    LET total_colors_ == CornerCount(img.width, img.height)
        avg_r == F32DivInt(CornerSum(img, "r"), total_colors_)
        avg_g == F32DivInt(CornerSum(img, "g"), total_colors_)
        avg_b == F32DivInt(CornerSum(img, "b"), total_colors_)
    IN  Rgba(F32ToU8(avg_r), F32ToU8(avg_g), F32ToU8(avg_b), 255)

(***************************************************************************)
(* create_mask, phase 1: the colour classification.                        *)
(***************************************************************************)
ClassifyMask(img, bg) ==
    [y \in 1..img.height |-> [x \in 1..img.width |->
        ~WithinTolerance(color_distance(get_pixel(img, x - 1, y - 1), bg))]]

(***************************************************************************)
(* flood_fill_background and flood_fill_iterative.                         *)
(***************************************************************************)
\* The four edges, concatenated: top, bottom, left, right, each a
\* (0..n).map(..).collect().  height - 1 and width - 1 are evaluated once per
\* element, so not at all for an empty range.
EdgeList(w, h, hm1, wm1) ==
    [i \in 1..w |-> <<i - 1, 0>>] \o [i \in 1..w |-> <<i - 1, hm1>>]
    \o [i \in 1..h |-> <<0, i - 1>>] \o [i \in 1..h |-> <<wm1, i - 1>>]

\* Whether building the edge list evaluates a usize subtraction below zero.
EdgeSubtractionOverflows(w, h) == (w > 0 /\ h = 0) \/ (h > 0 /\ w = 0)

DirectionsNoLeft == << <<0, 1>>, <<1, 0>>, <<0, -1>> >>

\* directions = [(0, 1), (1, 0), (0, -1), (-1, 0)]
Directions == << <<0, 1>>, <<1, 0>>, <<0, -1>>, <<-1, 0>> >>

MarkVisitedNot(v, x, y) == v

\* visited[y][x] = true
MarkVisited(v, x, y) == [v EXCEPT ![y + 1][x + 1] = TRUE]

\* mask[y - 1][x - 1] = false: both indices off by one.
MarkBackgroundOffByOne(m, x, y) ==
    IF InGrid(m, x - 1, y - 1) THEN [m EXCEPT ![y][x] = FALSE] ELSE m

\* mask[y][x] = false
MarkBackground(m, x, y) == [m EXCEPT ![y + 1][x + 1] = FALSE]

RECURSIVE PushNeighbours(_, _, _, _, _, _, _, _)
\* The loop over directions of flood_fill_iterative, from direction i on.
PushNeighbours(stk, m, v, x, y, w, h, i) ==
    IF i > Len(Directions) THEN stk
    ELSE LET new_x == x + Directions[i][1]
             new_y == y + Directions[i][2]
             inside == new_x >= 0 /\ new_x < w /\ new_y >= 0 /\ new_y < h
             push == inside /\ ~At(v, new_x, new_y) /\ ~At(m, new_x, new_y)
         IN  PushNeighbours(IF push THEN Append(stk, <<new_x, new_y>>) ELSE stk,
                            m, v, x, y, w, h, i + 1)

(***************************************************************************)
(* calculate_edge_alpha and apply_mask.                                    *)
(***************************************************************************)
\* The cells of the (2 * edge_blur + 1)^2 window around (x, y) inside the image.
WindowCells(x, y, w, h) ==
    {c \in ((x - edge_blur)..(x + edge_blur)) \X ((y - edge_blur)..(y + edge_blur)) :
        c[1] >= 0 /\ c[1] < w /\ c[2] >= 0 /\ c[2] < h}

total_count(x, y, w, h) == Cardinality(WindowCells(x, y, w, h))

background_count(m, x, y, w, h) ==
    Cardinality({c \in WindowCells(x, y, w, h) : ~At(m, c[1], c[2])})

calculate_edge_alpha(m, x, y, w, h) ==
    IF ~At(m, x, y) THEN F32Zero
    ELSE IF total_count(x, y, w, h) = 0 THEN F32One
    ELSE LET background_ratio ==
                 F32DivInt(background_count(m, x, y, w, h), total_count(x, y, w, h))
         IN  F32Max0(F32OneMinus(background_ratio))

\* The foreground branch only: a background pixel keeps its alpha.
ApplyPixelKeepBackground(img, m, x, y) ==
    LET pixel == get_pixel(img, x, y)
    IN  IF ~At(m, x, y) THEN pixel
        ELSE [pixel EXCEPT !.a =
                 F32ToU8(F32MulU8(pixel.a,
                     calculate_edge_alpha(m, x, y, img.width, img.height)))]

\* A background pixel cleared whole, colour included.
ApplyPixelClearBackground(img, m, x, y) ==
    LET pixel == get_pixel(img, x, y)
    IN  IF ~At(m, x, y) THEN Rgba(0, 0, 0, 0)
        ELSE [pixel EXCEPT !.a =
                 F32ToU8(F32MulU8(pixel.a,
                     calculate_edge_alpha(m, x, y, img.width, img.height)))]

\* The body of apply_mask's loops: the pixel put at (x, y).
ApplyPixel(img, m, x, y) ==
    LET pixel == get_pixel(img, x, y)
    IN  IF ~At(m, x, y) THEN [pixel EXCEPT !.a = 0]
        ELSE [pixel EXCEPT !.a =
                 F32ToU8(F32MulU8(pixel.a,
                     calculate_edge_alpha(m, x, y, img.width, img.height)))]

apply_mask(img, m) ==
    [width |-> img.width, height |-> img.height,
     px |-> [y \in 1..img.height |-> [x \in 1..img.width |->
                ApplyPixel(img, m, x - 1, y - 1)]]]

(***************************************************************************)
(* The state: the locals of remove_background and of the functions it      *)
(* calls, and where the call stands.                                       *)
(***************************************************************************)
VARIABLES
    image,             \* rgba_image
    background_color,  \* remove_background's background_color
    sample_size,       \* detect_background_color's sample_size
    total_colors,      \* detect_background_color's corner_colors.len()
    mask,              \* create_mask's mask
    visited,           \* flood_fill_background's visited
    edges,             \* flood_fill_background's edges
    edge_index,        \* position of `for (x, y) in edges`, 1-based
    stack,             \* flood_fill_iterative's stack
    result,            \* apply_mask's result
    pc,                \* the statement reached
    fault,             \* the panic raised, or "none"
    pass,              \* how many times flood_fill_background was called
    first_mask         \* the mask after the first call

vars == <<image, background_color, sample_size, total_colors, mask, visited,
          edges, edge_index, stack, result, pc, fault, pass, first_mask>>

width == image.width

height == image.height

NoColor == Rgba(0, 0, 0, 0)

NoImage == [width |-> 0, height |-> 0, px |-> <<>>]

(***************************************************************************)
(* The images and masks the calls are given.                               *)
(***************************************************************************)
Black == Rgba(0, 0, 0, 255)

\* At distance exactly 30 from Black: within the tolerance, barely.
NearBlack == Rgba(30, 0, 0, 255)

\* At distance 31 from Black: outside the tolerance, barely.
OffBlack == Rgba(31, 0, 0, 255)

White == Rgba(255, 255, 255, 255)

\* <<colour of most pixels, colour of the others>>
ColourPairs == {<<NearBlack, OffBlack>>, <<Black, OffBlack>>, <<White, Black>>}

Alphas == <<255, 3, 128, 0, 254, 1>>

\* The alpha of the pixel at (x, y) of a w-wide image: every value of Alphas in turn.
AlphaAt(x, y, w, shift) == Alphas[((y * w + x + shift) % Len(Alphas)) + 1]

Cells(w, h) == (0..(w - 1)) \X (0..(h - 1))

RECURSIVE SubsetsUpTo(_, _)
\* The subsets of C of at most k elements.
SubsetsUpTo(C, k) ==
    IF k = 0 THEN {{}}
    ELSE LET P == SubsetsUpTo(C, k - 1)
         IN  P \cup {s \cup {c} : s \in P, c \in C}

\* The four neighbours of each interior cell: a closed ring around it.
Rings(w, h) ==
    {{<<c[1] - 1, c[2]>>, <<c[1] + 1, c[2]>>, <<c[1], c[2] - 1>>, <<c[1], c[2] + 1>>} :
        c \in (1..(w - 2)) \X (1..(h - 2))}

\* The sets of cells that differ from the rest: any set in a small grid, a
\* few cells or a ring in a larger one.
Patterns(w, h) ==
    IF w * h <= MaxCells THEN SUBSET Cells(w, h)
    ELSE SubsetsUpTo(Cells(w, h), MaxFg) \cup Rings(w, h)

MakeImage(w, h, pair, S, shift) ==
    [width |-> w, height |-> h,
     px |-> [y \in 1..h |-> [x \in 1..w |->
                [(IF <<x - 1, y - 1>> \in S THEN pair[2] ELSE pair[1])
                    EXCEPT !.a = AlphaAt(x - 1, y - 1, w, shift)]]]]

MakeMask(w, h, S) == [y \in 1..h |-> [x \in 1..w |-> <<x - 1, y - 1>> \notin S]]

\* Every pixel of its own colour, so that a moved or recoloured pixel shows.
MakeDistinctImage(w, h, shift) ==
    [width |-> w, height |-> h,
     px |-> [y \in 1..h |-> [x \in 1..w |->
                Rgba((x * 40) % 256, (y * 40) % 256, (x + y * w) % 256,
                     AlphaAt(x - 1, y - 1, w, shift))]]]

\* remove_background is entered with a decoded image.
Init ==
    /\ \E w \in 0..MaxW, h \in 0..MaxH :
         \E pair \in ColourPairs, S \in Patterns(w, h) :
            image = MakeImage(w, h, pair, S, 0)
    /\ background_color = NoColor
    /\ sample_size = 0
    /\ total_colors = 0
    /\ mask = <<>>
    /\ visited = <<>>
    /\ edges = <<>>
    /\ edge_index = 1
    /\ stack = <<>>
    /\ result = NoImage
    /\ pc = "start"
    /\ fault = "none"
    /\ pass = 1
    /\ first_mask = <<>>

\* The same, with an image every corner of which is sampled.
InitSampled ==
    /\ Init
    /\ width >= CornerDivisor
    /\ height >= CornerDivisor

\* flood_fill_background is entered with a mask of its own.
InitFlood ==
    /\ \E w \in 1..MaxFloodCells, h \in 1..MaxFloodCells :
         /\ w * h <= MaxFloodCells
         /\ image = [width |-> w, height |-> h, px |-> NewGrid(w, h, NoColor)]
         /\ mask \in [1..h -> [1..w -> BOOLEAN]]
    /\ background_color = NoColor
    /\ sample_size = 0
    /\ total_colors = 0
    /\ visited = <<>>
    /\ edges = <<>>
    /\ edge_index = 1
    /\ stack = <<>>
    /\ result = NoImage
    /\ pc = "classified"
    /\ fault = "none"
    /\ pass = 1
    /\ first_mask = <<>>

\* apply_mask is entered with an image and a mask of its own.
InitApply ==
    /\ \E w \in 1..MaxW, h \in 1..MaxH :
         \E S \in Patterns(w, h), shift \in 0..(Len(Alphas) - 1) :
            /\ image = MakeDistinctImage(w, h, shift)
            /\ mask = MakeMask(w, h, S)
    /\ background_color = NoColor
    /\ sample_size = 0
    /\ total_colors = 0
    /\ visited = <<>>
    /\ edges = <<>>
    /\ edge_index = 1
    /\ stack = <<>>
    /\ result = NoImage
    /\ pc = "masked"
    /\ fault = "none"
    /\ pass = 1
    /\ first_mask = <<>>

(***************************************************************************)
(* The steps.                                                              *)
(***************************************************************************)
\* remove_background: let background_color = self.detect_background_color(..)
DetectBackgroundColor ==
    /\ pc = "start"
    /\ sample_size' = SampleSize(width, height)
    /\ total_colors' = CornerCount(width, height)
    /\ background_color' = detect_background_color(image)
    /\ pc' = "detected"
    /\ UNCHANGED <<image, mask, visited, edges, edge_index, stack, result, fault,
                   pass, first_mask>>

\* create_mask up to the call of flood_fill_background.
ClassifyPixels ==
    /\ pc = "detected"
    /\ mask' = ClassifyMask(image, background_color)
    /\ pc' = "classified"
    /\ UNCHANGED <<image, background_color, sample_size, total_colors, visited,
                   edges, edge_index, stack, result, fault, pass, first_mask>>

\* flood_fill_background up to its loop: visited and the edge list.
FloodFillBackground ==
    /\ pc = "classified"
    /\ ~EdgeSubtractionOverflows(width, height)
    /\ visited' = NewGrid(width, height, FALSE)
    /\ edges' = EdgeList(width, height, height - 1, width - 1)
    /\ edge_index' = 1
    /\ pc' = "seeding"
    /\ UNCHANGED <<image, background_color, sample_size, total_colors, mask,
                   stack, result, fault, pass, first_mask>>

\* The same with width or height 0 and the other not: width - 1 or
\* height - 1 is below zero.  A build with overflow checks panics there; one
\* without wraps around and goes on.
FloodFillBackgroundOverflow ==
    /\ pc = "classified"
    /\ EdgeSubtractionOverflows(width, height)
    /\ \/ /\ fault' = "attempt to subtract with overflow"
          /\ pc' = "panicked"
          /\ UNCHANGED <<visited, edges, edge_index>>
       \/ /\ visited' = NewGrid(width, height, FALSE)
          /\ edges' = EdgeList(width, height, UsizeWrappingSub(height, 1),
                               UsizeWrappingSub(width, 1))
          /\ edge_index' = 1
          /\ pc' = "seeding"
          /\ UNCHANGED fault
    /\ UNCHANGED <<image, background_color, sample_size, total_colors, mask,
                   stack, result, pass, first_mask>>

\* One turn of `for (x, y) in edges` that starts a fill or skips the cell.
SeedStep ==
    /\ pc = "seeding"
    /\ edge_index <= Len(edges)
    /\ LET x == edges[edge_index][1]
           y == edges[edge_index][2]
       IN  /\ InGrid(visited, x, y)
           /\ IF ~At(visited, x, y) /\ ~At(mask, x, y)
              THEN /\ stack' = <<<<x, y>>>>
                   /\ pc' = "filling"
                   /\ UNCHANGED edge_index
              ELSE /\ edge_index' = edge_index + 1
                   /\ UNCHANGED <<stack, pc>>
    /\ UNCHANGED <<image, background_color, sample_size, total_colors, mask,
                   visited, edges, result, fault, pass, first_mask>>

\* One turn of the loop whose visited[y][x] is outside the grid.
SeedIndexPanic ==
    /\ pc = "seeding"
    /\ edge_index <= Len(edges)
    /\ ~InGrid(visited, edges[edge_index][1], edges[edge_index][2])
    /\ fault' = "index out of bounds"
    /\ pc' = "panicked"
    /\ UNCHANGED <<image, background_color, sample_size, total_colors, mask,
                   visited, edges, edge_index, stack, result, pass, first_mask>>

\* The edge list is exhausted: flood_fill_background and create_mask return.
FloodFillReturn ==
    /\ pc = "seeding"
    /\ edge_index > Len(edges)
    /\ pc' = "masked"
    /\ UNCHANGED <<image, background_color, sample_size, total_colors, mask,
                   visited, edges, edge_index, stack, result, fault, pass,
                   first_mask>>

\* One turn of `while let Some((x, y)) = stack.pop()`.
FillPop ==
    /\ pc = "filling"
    /\ stack /= <<>>
    /\ LET x == stack[Len(stack)][1]
           y == stack[Len(stack)][2]
           rest == SubSeq(stack, 1, Len(stack) - 1)
       IN  IF At(visited, x, y) \/ At(mask, x, y)
           THEN /\ stack' = rest
                /\ UNCHANGED <<visited, mask>>
           ELSE /\ visited' = MarkVisited(visited, x, y)
                /\ mask' = MarkBackground(mask, x, y)
                /\ stack' = PushNeighbours(rest, mask', visited', x, y,
                                           width, height, 1)
    /\ UNCHANGED <<image, background_color, sample_size, total_colors, edges,
                   edge_index, result, pc, fault, pass, first_mask>>

\* The stack is empty: flood_fill_iterative returns to the loop over edges.
FillReturn ==
    /\ pc = "filling"
    /\ stack = <<>>
    /\ edge_index' = edge_index + 1
    /\ pc' = "seeding"
    /\ UNCHANGED <<image, background_color, sample_size, total_colors, mask,
                   visited, edges, stack, result, fault, pass, first_mask>>

\* remove_background: let result = self.apply_mask(&rgba_image, &mask)
ApplyMask ==
    /\ pc = "masked"
    /\ result' = apply_mask(image, mask)
    /\ pc' = "done"
    /\ UNCHANGED <<image, background_color, sample_size, total_colors, mask,
                   visited, edges, edge_index, stack, fault, pass, first_mask>>

\* flood_fill_background called once more, on the mask it returned.
FloodFillAgain ==
    /\ pc = "masked"
    /\ pass = 1
    /\ first_mask' = mask
    /\ pass' = 2
    /\ pc' = "classified"
    /\ UNCHANGED <<image, background_color, sample_size, total_colors, mask,
                   visited, edges, edge_index, stack, result, fault>>

Next ==
    \/ DetectBackgroundColor
    \/ ClassifyPixels
    \/ FloodFillBackground
    \/ FloodFillBackgroundOverflow
    \/ SeedStep
    \/ SeedIndexPanic
    \/ FloodFillReturn
    \/ FillPop
    \/ FillReturn
    \/ ApplyMask

\* The steps of a call on an image with no side of length 0.
NextSampled ==
    \/ DetectBackgroundColor
    \/ ClassifyPixels
    \/ FloodFillBackground
    \/ SeedStep
    \/ FloodFillReturn
    \/ FillPop
    \/ FillReturn
    \/ ApplyMask

NextFlood ==
    \/ FloodFillBackground
    \/ SeedStep
    \/ FloodFillReturn
    \/ FillPop
    \/ FillReturn
    \/ FloodFillAgain

NextApply == ApplyMask

\* remove_background on an image.
Spec == Init /\ [][Next]_vars

\* remove_background on an image of width and height 4 or more.
SpecSampled == InitSampled /\ [][NextSampled]_vars

\* flood_fill_background on a mask, twice.
SpecFlood == InitFlood /\ [][NextFlood]_vars

\* The same; a call that can take a step does.
FairSpecFlood == InitFlood /\ [][NextFlood]_vars /\ WF_vars(NextFlood)

\* apply_mask on an image and a mask.
SpecApply == InitApply /\ [][NextApply]_vars

(***************************************************************************)
(* What the properties below are stated with.                              *)
(***************************************************************************)
AllCells == Cells(width, height)

BorderCells ==
    {c \in AllCells : c[1] = 0 \/ c[1] = width - 1 \/ c[2] = 0 \/ c[2] = height - 1}

Adjacent(c, d) ==
    \/ c[1] = d[1] /\ (c[2] = d[2] + 1 \/ d[2] = c[2] + 1)
    \/ c[2] = d[2] /\ (c[1] = d[1] + 1 \/ d[1] = c[1] + 1)

RECURSIVE GrowReach(_, _)
\* The least set that holds R and every false cell of m next to one of its cells.
GrowReach(m, R) ==
    LET more == {c \in AllCells \ R : ~At(m, c[1], c[2]) /\ \E d \in R : Adjacent(c, d)}
    IN  IF more = {} THEN R ELSE GrowReach(m, R \cup more)

\* The false cells of m joined to a border cell by up/down/left/right steps
\* through false cells.
BorderReachable(m) == GrowReach(m, {c \in BorderCells : ~At(m, c[1], c[2])})

VisitedCells == {c \in AllCells : At(visited, c[1], c[2])}

SquaredDistance(p, q) ==
    (p.r - q.r) * (p.r - q.r) + (p.g - q.g) * (p.g - q.g) + (p.b - q.b) * (p.b - q.b)

SameColour(p, q) == p.r = q.r /\ p.g = q.g /\ p.b = q.b

UniformImage == \A c, d \in AllCells :
    SameColour(get_pixel(image, c[1], c[2]), get_pixel(image, d[1], d[2]))

Max2(a, b) == IF a > b THEN a ELSE b

\* The number of cells of the window around c inside the image, by its sides.
WindowTotal(c) ==
    (Min2(c[1] + edge_blur, width - 1) - Max2(c[1] - edge_blur, 0) + 1)
    * (Min2(c[2] + edge_blur, height - 1) - Max2(c[2] - edge_blur, 0) + 1)

\* The number of those whose mask entry is false.
WindowBackground(c) ==
    Cardinality({d \in AllCells : /\ d[1] - c[1] \in (-edge_blur)..edge_blur
                                  /\ d[2] - c[2] \in (-edge_blur)..edge_blur
                                  /\ ~At(mask, d[1], d[2])})

AlphaIn(c) == get_pixel(image, c[1], c[2]).a

AlphaOut(c) == get_pixel(result, c[1], c[2]).a

(***************************************************************************)
(* C1.  A uniform image of any size W, H >= 1 gives its own colour as the  *)
(* background colour, an all-false mask and a fully transparent output.    *)
(* Fails when W < 4 or H < 4: no corner pixel is sampled, the mean is      *)
(* 0.0 / 0.0 and the background colour is black.                           *)
(***************************************************************************)
C1_UniformImageIsCleared ==
    (pc = "done" /\ width >= 1 /\ height >= 1 /\ UniformImage) =>
        /\ SameColour(background_color, get_pixel(image, 0, 0))
        /\ background_color.a = 255
        /\ \A c \in AllCells : ~At(mask, c[1], c[2])
        /\ \A c \in AllCells : AlphaOut(c) = 0

(***************************************************************************)
(* C2.  No image of width or height 0, or below 4, makes the pipeline      *)
(* divide by a zero sample count, subtract below zero or index outside a   *)
(* grid; the sample side is at least 1 whenever W, H >= 1.  Fails: the     *)
(* sample side is not clamped, and width - 1, height - 1 are not guarded.  *)
(***************************************************************************)
C2_DegenerateSizesAreGuarded ==
    /\ fault = "none"
    /\ pc /= "start" => total_colors > 0
    /\ (pc /= "start" /\ width >= 1 /\ height >= 1) => sample_size >= 1

(***************************************************************************)
(* C3.  As claimed: a foreground pixel's output alpha is                   *)
(* a * (total - bg) / total rounded to the nearest integer.                *)
(***************************************************************************)
C3_AlphaIsRounded ==
    pc = "done" =>
        \A c \in AllCells : At(mask, c[1], c[2]) =>
            LET t == WindowTotal(c)
                q == AlphaIn(c) * (t - WindowBackground(c))
            IN  AlphaOut(c) = (2 * q + t) \div (2 * t)

(***************************************************************************)
(* C3, amended.  A foreground pixel's output alpha is the f32 product      *)
(* a * (1 - bg / total) cut to an integer toward zero: it is               *)
(* a * (total - bg) / total rounded down, or, only where that quotient is  *)
(* a whole number and bg > 0, possibly one less.                           *)
(***************************************************************************)
C3_AlphaIsTruncated ==
    pc = "done" =>
        \A c \in AllCells : At(mask, c[1], c[2]) =>
            LET t == WindowTotal(c)
                bg == WindowBackground(c)
                q == AlphaIn(c) * (t - bg)
            IN  IF bg = 0 \/ q % t /= 0
                THEN AlphaOut(c) = q \div t
                ELSE AlphaOut(c) \in {q \div t, (q \div t) - 1}

\* a = 255, bg = 1, total = 25 gives 244, not 245.
C3_Witness ==
    /\ pc = "done"
    /\ \E c \in AllCells :
         /\ At(mask, c[1], c[2])
         /\ AlphaIn(c) = 255 /\ WindowTotal(c) = 25 /\ WindowBackground(c) = 1
         /\ AlphaOut(c) = 244

(***************************************************************************)
(* C4.  As claimed: every entry that is false in the mask create_mask      *)
(* returns is joined to a border cell by a 4-directional path of false     *)
(* entries.  Fails: the flood fill marks what it reaches and clears        *)
(* nothing else, so an enclosed background-coloured cell stays false.      *)
(***************************************************************************)
C4_NoEnclosedBackground ==
    pc \in {"masked", "done"} =>
        \A c \in AllCells : ~At(mask, c[1], c[2]) => c \in BorderReachable(mask)

(***************************************************************************)
(* C5.  Wherever the mask is false the output alpha is 0, whatever the     *)
(* pixel's alpha was.                                                      *)
(***************************************************************************)
C5_BackgroundIsTransparent ==
    pc = "done" =>
        \A c \in AllCells : ~At(mask, c[1], c[2]) => AlphaOut(c) = 0

C5_Witness ==
    /\ pc = "done"
    /\ \E c \in AllCells : ~At(mask, c[1], c[2]) /\ AlphaIn(c) = 255 /\ AlphaOut(c) = 0
    /\ \E c \in AllCells : At(mask, c[1], c[2]) /\ AlphaOut(c) > 0

(***************************************************************************)
(* C6.  apply_mask returns a buffer of the input's width and height whose  *)
(* pixels have the input's R, G and B at the same place, and leaves the    *)
(* input image and the mask as they were.                                  *)
(***************************************************************************)
C6_OnlyAlphaDiffers ==
    [][(pc = "masked" /\ pc' = "done") =>
         /\ image' = image
         /\ mask' = mask
         /\ result'.width = width /\ result'.height = height
         /\ Len(result'.px) = height
         /\ \A y \in 1..height : Len(result'.px[y]) = width
         /\ \A c \in AllCells :
              SameColour(get_pixel(result', c[1], c[2]), get_pixel(image, c[1], c[2]))
      ]_vars

C6_Witness ==
    /\ pc = "done"
    /\ width = MaxW /\ height = MaxH
    /\ \E c \in AllCells : AlphaOut(c) /= AlphaIn(c) /\ ~At(mask, c[1], c[2])
    /\ \E c \in AllCells : AlphaOut(c) /= AlphaIn(c) /\ At(mask, c[1], c[2])

(***************************************************************************)
(* C7.  flood_fill_background run on its own result, with a fresh visited  *)
(* grid, returns the mask the first run returned.                          *)
(***************************************************************************)
C7_FloodFillIdempotent ==
    (pc = "masked" /\ pass = 2) => mask = first_mask

C7_Witness ==
    /\ pc = "masked" /\ pass = 2
    /\ VisitedCells /= {}
    /\ \E c \in AllCells : At(mask, c[1], c[2])
    /\ \E c \in AllCells : ~At(mask, c[1], c[2]) /\ c \notin VisitedCells

(***************************************************************************)
(* C8.  When flood_fill_background finishes, the visited cells are exactly *)
(* the false cells joined to a border cell by up/down/left/right steps     *)
(* through false cells; no cell whose mask entry is true is ever visited.  *)
(***************************************************************************)
C8_VisitedIsBorderReachable ==
    /\ pc \in {"seeding", "filling", "masked"} =>
         \A c \in VisitedCells : ~At(mask, c[1], c[2])
    /\ pc = "masked" => VisitedCells = BorderReachable(mask)

\* A finished fill that went round a corner, past a diagonal it did not
\* take, and left an enclosed false cell unvisited.
C8_Witness ==
    /\ pc = "masked"
    /\ Cardinality(VisitedCells) >= 3
    /\ \E c \in AllCells : ~At(mask, c[1], c[2]) /\ c \notin VisitedCells
    /\ \E c \in VisitedCells : \E d \in AllCells \ VisitedCells :
         /\ ~At(mask, d[1], d[2])
         /\ (d[1] - c[1]) * (d[1] - c[1]) = 1
         /\ (d[2] - c[2]) * (d[2] - c[2]) = 1

(***************************************************************************)
(* C9.  flood_fill_background terminates.  Every pop either marks a cell   *)
(* that was not visited, or finds the cell visited or foreground and       *)
(* pushes nothing; a visited cell stays visited until the call returns;    *)
(* and the call reaches its return.                                        *)
(***************************************************************************)
C9_FloodFillTerminates ==
    /\ [][(pc = "filling" /\ stack /= <<>>) =>
            \/ /\ visited' = visited
               /\ stack' = SubSeq(stack, 1, Len(stack) - 1)
            \/ /\ Cardinality(VisitedCells') = Cardinality(VisitedCells) + 1
               /\ VisitedCells \subseteq VisitedCells'
               /\ Len(stack') <= Len(stack) - 1 + Len(Directions)
         ]_vars
    /\ [][(pc \in {"seeding", "filling"}) => VisitedCells \subseteq VisitedCells']_vars
    /\ <>(pc = "masked" /\ pass = 2)

C9_Witness ==
    /\ pc = "masked" /\ pass = 2
    /\ Cardinality(VisitedCells) = MaxFloodCells

(***************************************************************************)
(* C10.  From the colour classification on, through every step of the      *)
(* flood fill and in the mask create_mask returns, an entry is false       *)
(* exactly when the squared RGB distance of its pixel to the background    *)
(* colour is at most 900: the flood fill changes no entry.                 *)
(***************************************************************************)
C10_MaskIsColourClassification ==
    pc \in {"classified", "seeding", "filling", "masked", "done"} =>
        \A c \in AllCells :
            ~At(mask, c[1], c[2]) <=>
                SquaredDistance(get_pixel(image, c[1], c[2]), background_color)
                    <= color_tolerance * color_tolerance

\* A finished fill over pixels exactly at the tolerance and pixels just
\* outside it, some false cells visited and one enclosed.
C10_Witness ==
    /\ pc = "masked"
    /\ VisitedCells /= {}
    /\ \E c \in AllCells : ~At(mask, c[1], c[2]) /\ c \notin VisitedCells
    /\ \E c \in AllCells :
         SquaredDistance(get_pixel(image, c[1], c[2]), background_color)
             = color_tolerance * color_tolerance
    /\ \E c \in AllCells :
         SquaredDistance(get_pixel(image, c[1], c[2]), background_color)
             = (color_tolerance + 1) * (color_tolerance + 1)

=============================================================================
